---- MODULE Spec2Model ----
(***************************************************************************)
(* A model of snomed_graph.py: SnomedGraph.from_rf2 builds a networkx      *)
(* DiGraph from the rows of an RF2 release, the query methods read it,     *)
(* save / from_serialized write and read it as GML.                        *)
(*                                                                         *)
(* The DiGraph is modelled as networkx keeps it: the node dictionary, the  *)
(* successor and predecessor dictionaries (all three in insertion order)   *)
(* and one attribute dictionary per edge.                                  *)
(***************************************************************************)
EXTENDS Integers, Sequences, FiniteSets, TLC

VARIABLES
    relationships,  \* rows of the sct2_Relationship snapshot from_rf2 is about to read
    descriptions,   \* rows of the sct2_Description snapshot from_rf2 is about to read
    pc,             \* "start": from_rf2 not yet called; "built"; "failed": from_rf2 raised
    G,              \* SnomedGraph.G
    stdout,         \* what the print calls have written so far
    result,         \* the last call: its name, arguments, and what it returned or raised
    gml             \* the file save wrote

vars == <<relationships, descriptions, pc, G, stdout, result, gml>>

(***************************************************************************)
(* Class constants (SnomedGraph, lines 111-113).  fsn_typeId exceeds the   *)
(* integers TLC has, and is only ever compared for equality: it is kept as *)
(* its decimal text.                                                       *)
(***************************************************************************)
fsn_typeId == "900000000000003001"
is_a_relationship_typeId == 116680003
root_concept_id == 138875005

(***************************************************************************)
(* Bounds of the releases the model is run on.                             *)
(***************************************************************************)
\* rows of a relationship file of the hierarchy releases
MaxRels == 3
\* rows of a relationship file of the releases with inactive and unnamed-type rows
MaxRows == 2
\* synonym rows of one concept in the description releases
MaxSyn == 2
\* steps_removed runs over 1..MaxSteps and None
MaxSteps == 2

\* description typeId of a synonym row: any value other than fsn_typeId
synonym_typeId == "900000000000013009"
\* SCTIDs the releases use besides the class constants: two clinical concepts,
\* an attribute type the releases describe, and one they may leave without a name
Sctids == <<22298006, 64572001, 363698007, 246075003>>
Infarct == Sctids[1]
Disease == Sctids[2]
FindingSite == Sctids[3]
CausativeAgent == Sctids[4]

ConceptIds == {Infarct, Disease, root_concept_id}
Groups == {0, 1}

\* standard fully specified names
StdFsn(c) ==
    CASE c = Infarct -> "Myocardial infarction (disorder)"
      [] c = Disease -> "Disease (disorder)"
      [] c = root_concept_id -> "SNOMED CT Concept (SNOMED RT+CTV3)"
      [] c = is_a_relationship_typeId -> "Is a (attribute)"
      [] c = FindingSite -> "Finding site (attribute)"
      [] OTHER -> "Causative agent (attribute)"

\* terms a description row may carry; "7" is a term made of digits,
\* "Crohn&Colitis" has a character GML escapes
Terms == {"Heart attack", "7", "Crohn&Colitis"}

(***************************************************************************)
(* Rows (section 6 of the spec; the columns from_rf2 reads)                *)
(***************************************************************************)
RelRow(s, d, g, t, a) ==
    [sourceId |-> s, destinationId |-> d, relationshipGroup |-> g, typeId |-> t, active |-> a]

DescRow(c, t, term, a) ==
    [conceptId |-> c, typeId |-> t, term |-> term, active |-> a]

FsnRow(c) == DescRow(c, fsn_typeId, StdFsn(c), 1)

\* all sequences over S of length at most n
SeqsUpTo(S, n) == UNION {[1..k -> S] : k \in 0..n}

RECURSIVE Concat(_)
Concat(ss) == IF ss = <<>> THEN <<>> ELSE Head(ss) \o Concat(Tail(ss))

\* the elements of a set of integers in ascending order
RECURSIVE Ascending(_)
Ascending(S) ==
    IF S = {} THEN <<>>
    ELSE LET m == CHOOSE x \in S : \A y \in S : x <= y
         IN <<m>> \o Ascending(S \ {m})

(***************************************************************************)
(* The releases.  Hierarchy releases: active ungrouped rows between        *)
(* distinct concepts, of the is-a or of an attribute type, every concept   *)
(* described by its FSN, or every concept but Disease, or every concept    *)
(* but the root.                                                           *)
(***************************************************************************)
HierarchyRows ==
    {RelRow(p[1], p[2], 0, p[3], 1) :
        p \in ConceptIds \X ConceptIds \X {is_a_relationship_typeId, FindingSite}}

NoSelfLoop(r) == r.sourceId # r.destinationId

StdDescriptions(D) ==
    [i \in 1..Len(Ascending(D)) |-> FsnRow(Ascending(D)[i])]

TypeIds == {is_a_relationship_typeId, FindingSite}

HierarchyReleases ==
    {[relationships |-> rs, descriptions |-> StdDescriptions(D \cup TypeIds)] :
        rs \in SeqsUpTo({r \in HierarchyRows : NoSelfLoop(r)}, MaxRels),
        D \in {ConceptIds, ConceptIds \ {Disease}, ConceptIds \ {root_concept_id}}}

(***************************************************************************)
(* Row releases: rows out of Infarct that may be inactive, may repeat a    *)
(* (source, destination) pair and may use a type whose concept has no      *)
(* active FSN row.                                                         *)
(***************************************************************************)
RowRows ==
    {RelRow(Infarct, p[1], p[2], p[3], p[4]) :
        p \in {Disease, root_concept_id} \X Groups
              \X {is_a_relationship_typeId, CausativeAgent} \X {0, 1}}

\* how the concept CausativeAgent is described
CausativeAgentRows ==
    { <<>>,
      <<FsnRow(CausativeAgent)>>,
      <<DescRow(CausativeAgent, fsn_typeId, StdFsn(CausativeAgent), 0)>>,
      <<DescRow(CausativeAgent, synonym_typeId, "Causative agent", 1)>>,
      <<DescRow(CausativeAgent, fsn_typeId, "7", 1), FsnRow(CausativeAgent)>> }

RowReleases ==
    {[relationships |-> rs,
      descriptions |-> StdDescriptions(ConceptIds \cup TypeIds) \o ca] :
        rs \in SeqsUpTo(RowRows, MaxRows), ca \in CausativeAgentRows}

(***************************************************************************)
(* Description releases: a fixed hierarchy, and Infarct described by an    *)
(* optional FSN row and up to MaxSyn synonym rows in any order, FindingSite*)
(* named by any term.                                                      *)
(***************************************************************************)
DescriptionRelationships ==
    << RelRow(Infarct, Disease, 0, is_a_relationship_typeId, 1),
       RelRow(Infarct, root_concept_id, 1, FindingSite, 1) >>

InfarctRows ==
    {rows \in SeqsUpTo({DescRow(Infarct, t, term, 1) :
                           t \in {fsn_typeId, synonym_typeId}, term \in Terms},
                       MaxSyn + 1) :
        /\ Cardinality({i \in 1..Len(rows) : rows[i].typeId = fsn_typeId}) <= 1
        /\ Cardinality({i \in 1..Len(rows) : rows[i].typeId # fsn_typeId}) <= MaxSyn}

DescriptionReleases ==
    {[relationships |-> DescriptionRelationships,
      descriptions |->
          <<FsnRow(Disease), FsnRow(is_a_relationship_typeId),
            DescRow(FindingSite, fsn_typeId, name, 1)>> \o rows] :
        rows \in InfarctRows, name \in Terms \cup {StdFsn(FindingSite)}}

Releases == HierarchyReleases \cup RowReleases \cup DescriptionReleases

(***************************************************************************)
(* networkx.DiGraph                                                        *)
(***************************************************************************)
\* nx.DiGraph()
EmptyGraph == [node |-> <<>>, attr |-> <<>>, succ |-> <<>>, pred |-> <<>>, edge |-> <<>>]

\* the attribute dictionary of a node that add_edge created: {}
NoAttrs == [keys |-> {}, fsn |-> "", synonyms |-> <<>>]

Range(s) == {s[i] : i \in 1..Len(s)}

Nodes(g) == Range(g.node)

Edges(g) == DOMAIN g.edge

\* DiGraph.add_node(n) for a node add_edge meets: created with no attributes
AddNodeIfAbsent(g, n) ==
    IF n \in Nodes(g) THEN g
    ELSE [g EXCEPT !.node = Append(@, n),
                   !.attr = @ @@ (n :> NoAttrs),
                   !.succ = @ @@ (n :> <<>>),
                   !.pred = @ @@ (n :> <<>>)]

\* add_edge as it would be if an edge that exists kept its dictionary
add_edge_keeps_first(g, u, v, data) ==
    LET g2 == AddNodeIfAbsent(AddNodeIfAbsent(g, u), v) IN
    IF <<u, v>> \in Edges(g2)
    THEN g2
    ELSE [g2 EXCEPT !.succ[u] = Append(@, v),
                    !.pred[v] = Append(@, u),
                    !.edge = @ @@ (<<u, v>> :> data)]

\* DiGraph.add_edge(u, v, group=, type=, type_id=): the edge's dictionary is
\* created, or updated with the three keys when the edge exists
add_edge(g, u, v, data) ==
    LET g2 == AddNodeIfAbsent(AddNodeIfAbsent(g, u), v) IN
    IF <<u, v>> \in Edges(g2)
    THEN [g2 EXCEPT !.edge[<<u, v>>] = data]
    ELSE [g2 EXCEPT !.succ[u] = Append(@, v),
                    !.pred[v] = Append(@, u),
                    !.edge = @ @@ (<<u, v>> :> data)]

\* DiGraph.add_node(n, fsn=, synonyms=): created, or its dictionary updated
add_node(g, n, fsn, synonyms) ==
    LET g1 == AddNodeIfAbsent(g, n) IN
    [g1 EXCEPT !.attr[n] = [keys |-> {"fsn", "synonyms"}, fsn |-> fsn, synonyms |-> synonyms]]

\* isolates as it would be if only nodes without attributes were taken: the
\* described concepts that no edge touches stay in the graph
isolates_without_fsn(g) ==
    {n \in Nodes(g) : /\ Len(g.succ[n]) + Len(g.pred[n]) = 0
                      /\ g.attr[n].keys = {}}

\* nx.isolates: the nodes of degree 0
isolates(g) == {n \in Nodes(g) : Len(g.succ[n]) + Len(g.pred[n]) = 0}

\* DiGraph.remove_nodes_from for nodes without edges
remove_nodes_from(g, ns) ==
    LET keep == Nodes(g) \ ns IN
    [g EXCEPT !.node = SelectSeq(@, LAMBDA n : n \in keep),
              !.attr = [n \in keep |-> g.attr[n]],
              !.succ = [n \in keep |-> g.succ[n]],
              !.pred = [n \in keep |-> g.pred[n]]]

number_of_nodes(g) == Len(g.node)

number_of_edges(g) == Cardinality(Edges(g))

(***************************************************************************)
(* SnomedGraph.from_rf2                                                    *)
(***************************************************************************)
\* df[df.active == 1]
ActiveRows(rows) == SelectSeq(rows, LAMBDA r : r.active = 1)

\* concepts_df.loc[relationships_df.typeId.unique()] raises KeyError when a
\* typeId is no conceptId of an active description row
LocRaises(rel, con) ==
    \E i \in 1..Len(rel) : \A j \in 1..Len(con) : con[j].conceptId # rel[i].typeId

\* relationship_types: typeId -> term of its active FSN rows; to_dict keeps the
\* last row of a repeated conceptId
FsnRowsOf(con, c) ==
    SelectSeq(con, LAMBDA d : d.conceptId = c /\ d.typeId = fsn_typeId)

\* relationship_types as it would be without the filter of line 503: the term
\* of the last active row of the type concept, whatever the row's type
relationship_types_of_any_row(rel, con) ==
    LET rowsOf(t) == SelectSeq(con, LAMBDA d : d.conceptId = t)
        named == {t \in {rel[i].typeId : i \in 1..Len(rel)} : rowsOf(t) # <<>>}
    IN [t \in named |-> rowsOf(t)[Len(rowsOf(t))].term]

relationship_types(rel, con) ==
    LET named == {t \in {rel[i].typeId : i \in 1..Len(rel)} : FsnRowsOf(con, t) # <<>>}
    IN [t \in named |-> FsnRowsOf(con, t)[Len(FsnRowsOf(con, t))].term]

\* the loop of lines 514-521 over rows i..Len(rel)
RECURSIVE CreateRelationships(_, _, _, _)
CreateRelationships(g, rel, types, i) ==
    IF i > Len(rel) THEN g
    ELSE CreateRelationships(
             add_edge(g, rel[i].sourceId, rel[i].destinationId,
                      [group |-> rel[i].relationshipGroup,
                       type |-> types[rel[i].typeId],
                       type_id |-> rel[i].typeId]),
             rel, types, i + 1)

\* relationship_types[r["typeId"]] raises KeyError for a typeId without a name
LookupRaises(rel, types) == \E i \in 1..Len(rel) : rel[i].typeId \notin DOMAIN types

\* one pass of the loop of lines 525-533 for concept c
ConceptNode(con, c) ==
    LET rows == SelectSeq(con, LAMBDA d : d.conceptId = c)
        syn == SelectSeq(rows, LAMBDA d : d.typeId # fsn_typeId)
        synonyms == [i \in 1..Len(syn) |-> syn[i].term]
        fsnrows == SelectSeq(rows, LAMBDA d : d.typeId = fsn_typeId)
    IN IF fsnrows # <<>>
       THEN [fsn |-> fsnrows[1].term, synonyms |-> synonyms, warned |-> FALSE]
       ELSE [fsn |-> synonyms[1], synonyms |-> Tail(synonyms), warned |-> TRUE]

\* groupby(concepts_df.index) visits the conceptIds in ascending order
RECURSIVE AddConcepts(_, _, _)
AddConcepts(g, con, cs) ==
    IF cs = <<>> THEN g
    ELSE LET c == ConceptNode(con, Head(cs))
         IN AddConcepts(add_node(g, Head(cs), c.fsn, c.synonyms), con, Tail(cs))

DescribedIds(con) == {con[j].conceptId : j \in 1..Len(con)}

\* the graph from_rf2 hands to SnomedGraph(G) when nothing raises
BuildGraph(rel, con) ==
    LET g1 == CreateRelationships(EmptyGraph, rel, relationship_types(rel, con), 1)
        g2 == AddConcepts(g1, con, Ascending(DescribedIds(con)))
    IN remove_nodes_from(g2, isolates(g2))

\* the lines from_rf2 prints
Line509(rel, con) == [line |-> 509, a |-> Len(con), b |-> Len(rel), text |-> ""]
Line513 == [line |-> 513, a |-> 0, b |-> 0, text |-> "Creating Relationships..."]
Line524 == [line |-> 524, a |-> 0, b |-> 0, text |-> "Adding Concepts..."]
Line532(cs, con) ==
    LET w == SelectSeq(cs, LAMBDA c : ConceptNode(con, c).warned)
    IN [i \in 1..Len(w) |-> [line |-> 532, a |-> w[i], b |-> 0, text |-> ConceptNode(con, w[i]).fsn]]
\* SnomedGraph.__init__ prints repr(self): the numbers of vertices and edges
Repr(vertices, edges) == [line |-> 126, a |-> vertices, b |-> edges, text |-> ""]

Line126(g) == Repr(number_of_nodes(g), number_of_edges(g))


(***************************************************************************)
(* What a call returns or raises                                           *)
(***************************************************************************)
Ok(v) == [exc |-> "none", val |-> v]

Raise(e) == [exc |-> e, val |-> <<>>]

\* SnomedConceptDetails(sctid=sctid, **self.G.nodes[sctid]): fsn is a required
\* argument, so a node with an empty attribute dictionary raises TypeError
HasFsn(g, sctid) == "fsn" \in g.attr[sctid].keys

SnomedConceptDetails(g, sctid) ==
    [sctid |-> sctid, fsn |-> g.attr[sctid].fsn, synonyms |-> g.attr[sctid].synonyms]

SnomedRelationship(g, s, t) ==
    [src |-> SnomedConceptDetails(g, s), tgt |-> SnomedConceptDetails(g, t),
     group |-> g.edge[<<s, t>>].group, type |-> g.edge[<<s, t>>].type,
     type_id |-> g.edge[<<s, t>>].type_id]

get_concept_details(g, sctid) ==
    IF HasFsn(g, sctid) THEN Ok(SnomedConceptDetails(g, sctid)) ELSE Raise("TypeError")

\* __get_out_relationships, consumed to its end: the relationships of
\* G.out_edges(src_sctid) in the order of the successor dictionary
get_out_relationships(g, src_sctid) ==
    IF \A n \in {src_sctid} \cup Range(g.succ[src_sctid]) : HasFsn(g, n)
    THEN Ok([i \in 1..Len(g.succ[src_sctid]) |->
                SnomedRelationship(g, src_sctid, g.succ[src_sctid][i])])
    ELSE Raise("TypeError")

\* __get_in_relationships, consumed to its end
get_in_relationships(g, tgt_sctid) ==
    IF \A n \in {tgt_sctid} \cup Range(g.pred[tgt_sctid]) : HasFsn(g, n)
    THEN Ok([i \in 1..Len(g.pred[tgt_sctid]) |->
                SnomedRelationship(g, g.pred[tgt_sctid][i], tgt_sctid)])
    ELSE Raise("TypeError")

IsA(r) == r.type_id = is_a_relationship_typeId

get_children(g, sctid) ==
    LET rs == get_in_relationships(g, sctid) IN
    IF rs.exc # "none" THEN rs
    ELSE LET isa == SelectSeq(rs.val, IsA) IN Ok([i \in 1..Len(isa) |-> isa[i].src])

get_parents(g, sctid) ==
    LET rs == get_out_relationships(g, sctid) IN
    IF rs.exc # "none" THEN rs
    ELSE LET isa == SelectSeq(rs.val, IsA) IN Ok([i \in 1..Len(isa) |-> isa[i].tgt])

(***************************************************************************)
(* get_inferred_relationships                                              *)
(***************************************************************************)
\* sorted(rs, key=group): stable, an element goes after those of an equal key
RECURSIVE InsertByGroup(_, _)
InsertByGroup(sorted, r) ==
    IF sorted = <<>> THEN <<r>>
    ELSE IF Head(sorted).group <= r.group
         THEN <<Head(sorted)>> \o InsertByGroup(Tail(sorted), r)
         ELSE <<r>> \o sorted

RECURSIVE sorted_by_group(_)
sorted_by_group(rs) ==
    IF rs = <<>> THEN <<>>
    ELSE InsertByGroup(sorted_by_group(SubSeq(rs, 1, Len(rs) - 1)), rs[Len(rs)])

\* itertools.groupby(rs, key=group): one SnomedRelationshipGroup per run of
\* consecutive elements of an equal key
RECURSIVE groupby(_)
groupby(rs) ==
    IF rs = <<>> THEN <<>>
    ELSE LET before == groupby(SubSeq(rs, 1, Len(rs) - 1))
             r == rs[Len(rs)]
         IN IF before # <<>> /\ before[Len(before)].group = r.group
            THEN [before EXCEPT ![Len(before)].relationships = Append(@, r)]
            ELSE Append(before, [group |-> r.group, relationships |-> <<r>>])

get_inferred_relationships(g, sctid) ==
    LET rs == get_out_relationships(g, sctid) IN
    IF rs.exc # "none" THEN rs
    ELSE Ok(groupby(sorted_by_group(SelectSeq(rs.val, LAMBDA r : ~IsA(r)))))

(***************************************************************************)
(* get_ancestors, get_neighbourhood                                        *)
(***************************************************************************)
\* steps_removed = None
None == 99999

\* The calls on the stack are those of `chain`.  A call for a concept that is
\* already on the stack, with more steps left than CPython has frames (1000 by
\* default), repeats itself until the interpreter raises RecursionError.
RECURSIVE get_ancestors_at(_, _, _, _)
RECURSIVE AncestorsOf(_, _, _, _, _)
get_ancestors_at(g, sctid, steps_removed, chain) ==
    IF sctid \in Range(chain) /\ steps_removed > 1000 THEN Raise("RecursionError")
    ELSE
    LET parents == get_parents(g, sctid) IN
    IF parents.exc # "none" THEN parents
    ELSE LET ancestors ==
                 IF steps_removed > 1
                 THEN AncestorsOf(g, parents.val, steps_removed - 1,
                                  Append(chain, sctid), Range(parents.val))
                 ELSE Ok(Range(parents.val))
         IN IF ancestors.exc # "none" THEN ancestors
            ELSE Ok({a \in ancestors.val : ~(a.sctid = root_concept_id)})

\* the loop of lines 263-266 over the parents left, `ancestors` the set so far
AncestorsOf(g, parents, steps, chain, ancestors) ==
    IF parents = <<>> THEN Ok(ancestors)
    ELSE LET up == get_ancestors_at(g, Head(parents).sctid, steps, chain) IN
         IF up.exc # "none" THEN up
         ELSE AncestorsOf(g, Tail(parents), steps, chain, ancestors \cup up.val)

get_ancestors(g, sctid, steps_removed) == get_ancestors_at(g, sctid, steps_removed, <<>>)

RECURSIVE get_neighbourhood(_, _, _)
get_neighbourhood(g, sctid, steps_removed) ==
    LET parents == get_parents(g, sctid)
        children == get_children(g, sctid)
    IN
    IF parents.exc # "none" THEN parents
    ELSE IF children.exc # "none" THEN children
    ELSE LET near == Range(parents.val) \cup Range(children.val)
             further == {get_neighbourhood(g, n.sctid, steps_removed - 1) : n \in near}
         IN IF steps_removed > 1 /\ \E f \in further : f.exc # "none"
            THEN Raise("TypeError")
            ELSE LET neighbourhood ==
                         IF steps_removed > 1
                         THEN near \cup UNION {f.val : f \in further}
                         ELSE near
                 IN Ok({n \in neighbourhood : n.sctid \notin {sctid, root_concept_id}})

(***************************************************************************)
(* find_path, path_to_root                                                 *)
(***************************************************************************)
\* the node sequences that follow k edges of g from a to b
RECURSIVE Walks(_, _, _, _)
Walks(g, a, b, k) ==
    IF k = 0 THEN (IF a = b THEN {<<a>>} ELSE {})
    ELSE UNION {{<<a>> \o w : w \in Walks(g, g.succ[a][i], b, k - 1)} :
                   i \in 1..Len(g.succ[a])}

\* nx.has_path
has_path(g, a, b) == \E k \in 0..(number_of_nodes(g) - 1) : Walks(g, a, b, k) # {}

\* nx.shortest_path returns one path of the fewest edges; which one is the
\* search's choice, so the model keeps them all
shortest_paths(g, a, b) ==
    LET d == CHOOSE k \in 0..(number_of_nodes(g) - 1) :
                 /\ Walks(g, a, b, k) # {}
                 /\ \A j \in 0..(k - 1) : Walks(g, a, b, j) = {}
    IN Walks(g, a, b, d)

\* the loop of lines 318-323 over pairwise(nodes)
RelationshipsAlong(g, nodes) ==
    IF Len(nodes) >= 2 /\ \E i \in 1..Len(nodes) : ~HasFsn(g, nodes[i])
    THEN Raise("TypeError")
    ELSE Ok([i \in 1..(Len(nodes) - 1) |-> SnomedRelationship(g, nodes[i], nodes[i + 1])])

\* str(n) of the integers the releases hold
DecimalText ==
    (7 :> "7") @@ (22298006 :> "22298006") @@ (64572001 :> "64572001")
    @@ (138875005 :> "138875005") @@ (116680003 :> "116680003")
    @@ (363698007 :> "363698007") @@ (246075003 :> "246075003")

str(n) == DecimalText[n]

\* SnomedConceptDetails.__repr__: "sctid | fsn"
ConceptText(c) == str(c.sctid) \o " | " \o c.fsn

\* the text lines 326-328 and 366-368 build from a path of one relationship
\* or more: "[src] ---[type]---> [tgt] ---[type]---> [tgt]"
RECURSIVE StepsText(_)
StepsText(path) ==
    IF path = <<>> THEN ""
    ELSE " ---[" \o Head(path).type \o "]---> [" \o ConceptText(Head(path).tgt) \o "]"
             \o StepsText(Tail(path))

PathText(path) == "[" \o ConceptText(path[1].src) \o "]" \o StepsText(path)

\* what a call gives: its result r, and the lines it prints
Outcome(r, out) == [r |-> r, out |-> out]

Line329(path) == [line |-> 329, a |-> 0, b |-> 0, text |-> PathText(path)]
Line331 == [line |-> 331, a |-> 0, b |-> 0, text |-> "No path found."]
Line369(path) == [line |-> 369, a |-> 0, b |-> 0, text |-> PathText(path)]

\* every outcome find_path(sctid1, sctid2, print_) can have.  With print_, a
\* path of no relationship between a concept and itself has nodes but no
\* path[0]: IndexError at line 326
find_path_print(g, sctid1, sctid2, print_) ==
    LET nodes == IF has_path(g, sctid1, sctid2) THEN shortest_paths(g, sctid1, sctid2)
                 ELSE IF has_path(g, sctid2, sctid1) THEN shortest_paths(g, sctid2, sctid1)
                 ELSE {<<>>}
        outcome(ns) ==
            LET path == RelationshipsAlong(g, ns) IN
            IF path.exc # "none" \/ ~print_ THEN Outcome(path, <<>>)
            ELSE IF Len(ns) > 0
                 THEN IF path.val = <<>> THEN Outcome(Raise("IndexError"), <<>>)
                      ELSE Outcome(path, <<Line329(path.val)>>)
                 ELSE Outcome(path, <<Line331>>)
    IN {outcome(ns) : ns \in nodes}

\* every result find_path(sctid1, sctid2) can give
find_path(g, sctid1, sctid2) == {o.r : o \in find_path_print(g, sctid1, sctid2, FALSE)}

\* nx.all_simple_paths(G, source, target): the paths of at least one edge that
\* repeat no node (for source = target networkx yields nothing or the path of
\* no edge, by its version; path_to_root treats both alike)
RECURSIVE SimplePathsFrom(_, _, _)
SimplePathsFrom(g, path, target) ==
    LET last == path[Len(path)] IN
    UNION {IF g.succ[last][i] \in Range(path) THEN {}
           ELSE IF g.succ[last][i] = target THEN {Append(path, target)}
           ELSE SimplePathsFrom(g, Append(path, g.succ[last][i]), target) :
              i \in 1..Len(g.succ[last])}

all_simple_paths(g, source, target) ==
    IF source = target THEN {} ELSE SimplePathsFrom(g, <<source>>, target)

\* the edges of `nodes` the loop of lines 349-358 looks at: up to and including
\* the first that is not is-a
EdgesSeen(g, nodes) ==
    LET notisa == {i \in 1..(Len(nodes) - 1) :
                      g.edge[<<nodes[i], nodes[i + 1]>>].type_id # is_a_relationship_typeId}
    IN IF notisa = {} THEN Len(nodes) - 1
       ELSE CHOOSE i \in notisa : \A j \in notisa : i <= j

PathRaises(g, nodes) ==
    \E i \in 1..EdgesSeen(g, nodes) : ~HasFsn(g, nodes[i]) \/ ~HasFsn(g, nodes[i + 1])

AllIsA(g, nodes) ==
    \A i \in 1..(Len(nodes) - 1) :
        g.edge[<<nodes[i], nodes[i + 1]>>].type_id = is_a_relationship_typeId

\* what path_to_root returns: None, or a list of relationships
PyNone == [is_none |-> TRUE, path |-> <<>>]
PyList(p) == [is_none |-> FALSE, path |-> p]

\* every result the loop of lines 346-364 can leave in shortest_path: among
\* the shortest all-is-a paths the first one found is kept, and the order is
\* that of the search
shortest_path(g, sctid) ==
    IF root_concept_id \notin Nodes(g) THEN {Raise("NodeNotFound")}
    ELSE
    LET paths == all_simple_paths(g, sctid, root_concept_id)
        isa == {p \in paths : AllIsA(g, p)}
        shortest == {p \in isa : \A q \in isa : Len(p) <= Len(q)}
    IN IF \E p \in paths : PathRaises(g, p) THEN {Raise("TypeError")}
       ELSE IF isa = {} THEN {Ok(PyNone)}
       ELSE {Ok(PyList(RelationshipsAlong(g, p).val)) : p \in shortest}

\* every outcome path_to_root(sctid, print_) can have.  With print_, a
\* shortest_path of None has no [0]: TypeError at line 366
path_to_root_print(g, sctid, print_) ==
    {IF found.exc # "none" \/ ~print_ THEN Outcome(found, <<>>)
     ELSE IF found.val.is_none THEN Outcome(Raise("TypeError"), <<>>)
     ELSE Outcome(found, <<Line369(found.val.path)>>) :
        found \in shortest_path(g, sctid)}

\* every result path_to_root(sctid) can give
path_to_root(g, sctid) == {o.r : o \in path_to_root_print(g, sctid, FALSE)}

(***************************************************************************)
(* save and from_serialized: networkx's GML writer and reader              *)
(***************************************************************************)
\* int(s), which raises ValueError for a text that is no integer literal
IsIntLiteral(s) == \E n \in DOMAIN DecimalText : DecimalText[n] = s

int(s) == CHOOSE n \in DOMAIN DecimalText : DecimalText[n] = s

\* networkx.readwrite.gml.escape: & and " and what is not printable ASCII
\* become character references; unescape turns the references back
escape(s) == IF s = "Crohn&Colitis" THEN "Crohn&#38;Colitis" ELSE s

unescape(s) == IF s = "Crohn&#38;Colitis" THEN "Crohn&Colitis" ELSE s

LIST_START_VALUE == "_networkx_list_start"

\* a value of a GML line: an integer, or a quoted string
GmlInt(n) == [quoted |-> FALSE, text |-> "", int |-> n]
GmlString(s) == [quoted |-> TRUE, text |-> s, int |-> 0]

\* generate_gml's stringize for a str, for a list of str, for an int
\* (every integer TLC has is within GML's 32 bits and is written bare)
StringizeStr(key, value) == << <<key, GmlString(escape(value))>> >>

StringizeList(key, value) ==
    (IF Len(value) = 0 THEN << <<key, GmlString("[]")>> >>
     ELSE IF Len(value) = 1 THEN << <<key, GmlString(LIST_START_VALUE)>> >>
     ELSE <<>>)
    \o [i \in 1..Len(value) |-> <<key, GmlString(escape(value[i]))>>]

StringizeInt(key, value) == << <<key, GmlInt(value)>> >>

IndexOf(s, x) == CHOOSE i \in 1..Len(s) : s[i] = x

\* G.edges: the nodes in their order, the successors of each in its order
EdgeList(g) ==
    Concat([i \in 1..Len(g.node) |->
               [j \in 1..Len(g.succ[g.node[i]]) |-> <<g.node[i], g.succ[g.node[i]][j]>>]])

NoFile == [written |-> FALSE, node |-> <<>>, edge |-> <<>>]

\* nx.write_gml(self.G, path)
write_gml(g) ==
    [written |-> TRUE,
     node |-> [i \in 1..Len(g.node) |->
                 [id |-> i - 1,
                  kv |-> << <<"label", GmlString(str(g.node[i]))>> >>
                         \o (IF "fsn" \in g.attr[g.node[i]].keys
                             THEN StringizeStr("fsn", g.attr[g.node[i]].fsn)
                             ELSE <<>>)
                         \o (IF "synonyms" \in g.attr[g.node[i]].keys
                             THEN StringizeList("synonyms", g.attr[g.node[i]].synonyms)
                             ELSE <<>>)]],
     edge |-> [i \in 1..Len(EdgeList(g)) |->
                 LET e == EdgeList(g)[i] IN
                 [source |-> IndexOf(g.node, e[1]) - 1,
                  target |-> IndexOf(g.node, e[2]) - 1,
                  kv |-> StringizeInt("group", g.edge[e].group)
                         \o StringizeStr("type", g.edge[e].type)
                         \o StringizeInt("type_id", g.edge[e].type_id)]]]

\* the Python values the reader produces
PyInt(n) == [py |-> "int", int |-> n, str |-> "", items |-> <<>>]
PyStr(s) == [py |-> "str", int |-> 0, str |-> s, items |-> <<>>]
PyItems(vs) == [py |-> "list", int |-> 0, str |-> "", items |-> vs]
PyAbsent == [py |-> "absent", int |-> 0, str |-> "", items |-> <<>>]

\* parse_kv on one value: an integer as it is; a string unescaped, handed to
\* the destringizer (int; a ValueError leaves the string), "[]" made a list
ParseValue(tok) ==
    IF ~tok.quoted THEN PyInt(tok.int)
    ELSE LET value == unescape(tok.text) IN
         IF IsIntLiteral(value) THEN PyInt(int(value))
         ELSE IF value = "[]" THEN PyItems(<<>>)
         ELSE PyStr(value)

\* clean_dict_value on the values gathered for one key
clean_dict_value(values) ==
    IF Len(values) = 1 THEN values[1]
    ELSE IF values[1] = PyStr(LIST_START_VALUE) THEN PyItems(Tail(values))
    ELSE PyItems(values)

\* the value the reader gives `key` in the dictionary of the lines kv
ParsedKey(kv, key) ==
    LET lines == SelectSeq(kv, LAMBDA l : l[1] = key) IN
    IF lines = <<>> THEN PyAbsent
    ELSE clean_dict_value([i \in 1..Len(lines) |-> ParseValue(lines[i][2])])

\* nx.read_gml(path, destringizer=int): the nodes under their labels with the
\* rest of their dictionary, the edges between the labels with theirs
read_gml(file) ==
    LET label(i) == ParsedKey(file.node[i].kv, "label")
        labelOf(id) == label(CHOOSE i \in 1..Len(file.node) : file.node[i].id = id)
    IN [node |-> {label(i) : i \in 1..Len(file.node)},
        attr |-> {[sctid |-> label(i),
                   fsn |-> ParsedKey(file.node[i].kv, "fsn"),
                   synonyms |-> ParsedKey(file.node[i].kv, "synonyms")] :
                      i \in 1..Len(file.node)},
        edge |-> {[source |-> labelOf(file.edge[i].source),
                   target |-> labelOf(file.edge[i].target),
                   group |-> ParsedKey(file.edge[i].kv, "group"),
                   type |-> ParsedKey(file.edge[i].kv, "type"),
                   type_id |-> ParsedKey(file.edge[i].kv, "type_id")] :
                      i \in 1..Len(file.edge)}]

(***************************************************************************)
(* The calls                                                               *)
(***************************************************************************)
Call(op, args, r) == [op |-> op, args |-> args, exc |-> r.exc, val |-> r.val]

NoResult == Call("none", <<>>, Ok(<<>>))

StepsRemoved == (1..MaxSteps) \cup {None}

FromRf2 ==
    /\ pc = "start"
    /\ LET rel == ActiveRows(relationships)
           con == ActiveRows(descriptions)
       IN IF LocRaises(rel, con)
          THEN /\ pc' = "failed"
               /\ result' = Call("from_rf2", <<502>>, Raise("KeyError"))
               /\ UNCHANGED <<G, stdout>>
          ELSE IF LookupRaises(rel, relationship_types(rel, con))
          THEN /\ pc' = "failed"
               /\ result' = Call("from_rf2", <<519>>, Raise("KeyError"))
               /\ stdout' = stdout \o <<Line509(rel, con), Line513>>
               /\ UNCHANGED G
          ELSE /\ pc' = "built"
               /\ result' = Call("from_rf2", <<>>, Ok(<<>>))
               /\ G' = BuildGraph(rel, con)
               /\ stdout' = stdout \o <<Line509(rel, con), Line513, Line524>>
                              \o Line532(Ascending(DescribedIds(con)), con)
                              \o <<Line126(BuildGraph(rel, con))>>
    \* the DataFrames are locals of the call
    /\ relationships' = <<>>
    /\ descriptions' = <<>>
    /\ UNCHANGED gml

\* The queries read G and change nothing: a query made after another query
\* reaches no state that the query alone does not reach.  The caller is
\* therefore followed from from_rf2 or save to one further call.
Idle == result.op \in {"from_rf2", "save"}

Query(r) ==
    /\ Idle
    /\ result' = r
    /\ UNCHANGED <<relationships, descriptions, pc, G, stdout, gml>>

GetConceptDetails ==
    /\ pc = "built"
    /\ \E sctid \in Nodes(G) :
          Query(Call("get_concept_details", <<sctid>>, get_concept_details(G, sctid)))

GetParents ==
    /\ pc = "built"
    /\ \E sctid \in Nodes(G) : Query(Call("get_parents", <<sctid>>, get_parents(G, sctid)))

GetChildren ==
    /\ pc = "built"
    /\ \E sctid \in Nodes(G) : Query(Call("get_children", <<sctid>>, get_children(G, sctid)))

GetInferredRelationships ==
    /\ pc = "built"
    /\ \E sctid \in Nodes(G) :
          Query(Call("get_inferred_relationships", <<sctid>>,
                     get_inferred_relationships(G, sctid)))

GetAncestors ==
    /\ pc = "built"
    /\ \E sctid \in Nodes(G), k \in StepsRemoved :
          Query(Call("get_ancestors", <<sctid, k>>, get_ancestors(G, sctid, k)))

GetNeighbourhood ==
    /\ pc = "built"
    /\ \E sctid \in Nodes(G), k \in 1..MaxSteps :
          Query(Call("get_neighbourhood", <<sctid, k>>, get_neighbourhood(G, sctid, k)))

\* a query that prints when it is asked to
PrintingQuery(r, out) ==
    /\ Idle
    /\ result' = r
    /\ stdout' = stdout \o out
    /\ UNCHANGED <<relationships, descriptions, pc, G, gml>>

FindPath ==
    /\ pc = "built"
    /\ \E sctid1 \in Nodes(G), sctid2 \in Nodes(G), print_ \in BOOLEAN :
          \E o \in find_path_print(G, sctid1, sctid2, print_) :
              PrintingQuery(Call("find_path", <<sctid1, sctid2, print_>>, o.r), o.out)

PathToRoot ==
    /\ pc = "built"
    /\ \E sctid \in Nodes(G), print_ \in BOOLEAN :
          \E o \in path_to_root_print(G, sctid, print_) :
              PrintingQuery(Call("path_to_root", <<sctid, print_>>, o.r), o.out)

Save ==
    /\ pc = "built"
    /\ result.op = "from_rf2"
    /\ gml' = write_gml(G)
    /\ result' = Call("save", <<>>, Ok(<<>>))
    /\ UNCHANGED <<relationships, descriptions, pc, G, stdout>>

\* from_serialized reads the file and hands the graph to SnomedGraph(G), whose
\* __init__ prints the graph it was given
FromSerialized ==
    /\ gml.written
    /\ Idle
    /\ LET loaded == read_gml(gml)
       IN /\ result' = Call("from_serialized", <<>>, Ok(loaded))
          /\ stdout' = Append(stdout, Repr(Cardinality(loaded.node),
                                           Cardinality(loaded.edge)))
    /\ UNCHANGED <<relationships, descriptions, pc, G, gml>>

\* SnomedGraph(G) called directly on the DiGraph of a graph that exists: the
\* new object holds the same DiGraph, and __init__ prints it
SnomedGraphInit ==
    /\ pc = "built"
    /\ Idle
    /\ result' = Call("__init__", <<>>, Ok(<<>>))
    /\ stdout' = Append(stdout, Line126(G))
    /\ UNCHANGED <<relationships, descriptions, pc, G, gml>>

Init ==
    /\ \E rf2 \in Releases :
          /\ relationships = rf2.relationships
          /\ descriptions = rf2.descriptions
    /\ pc = "start"
    /\ G = EmptyGraph
    /\ stdout = <<>>
    /\ result = NoResult
    /\ gml = NoFile

Next ==
    \/ FromRf2
    \/ GetConceptDetails
    \/ GetParents
    \/ GetChildren
    \/ GetInferredRelationships
    \/ GetAncestors
    \/ GetNeighbourhood
    \/ FindPath
    \/ PathToRoot
    \/ Save
    \/ FromSerialized
    \/ SnomedGraphInit

Spec == Init /\ [][Next]_vars

\* the releases that exercise the rows and the descriptions from_rf2 reads
InitRows ==
    /\ \E rf2 \in RowReleases \cup DescriptionReleases :
          /\ relationships = rf2.relationships
          /\ descriptions = rf2.descriptions
    /\ pc = "start"
    /\ G = EmptyGraph
    /\ stdout = <<>>
    /\ result = NoResult
    /\ gml = NoFile

SpecRows == InitRows /\ [][Next]_vars

(***************************************************************************)
(* The hierarchy as the claims speak of it: is-a edges, followed upward,   *)
(* or in either direction                                                  *)
(***************************************************************************)
Root == root_concept_id

IsAEdge(g, s, t) ==
    <<s, t>> \in Edges(g) /\ g.edge[<<s, t>>].type_id = is_a_relationship_typeId

UpOnce(g, S) == {t \in Nodes(g) : \E s \in S : IsAEdge(g, s, t)}

RECURSIVE UpExactly(_, _, _)
UpExactly(g, S, j) == IF j = 0 THEN S ELSE UpOnce(g, UpExactly(g, S, j - 1))

\* the concepts 1..k is-a edges above n
UpWithin(g, n, k) == UNION {UpExactly(g, {n}, j) : j \in 1..k}

IsAAcyclic(g) == \A n \in Nodes(g) : n \notin UpWithin(g, n, number_of_nodes(g))

AroundOnce(g, S) ==
    {t \in Nodes(g) : \E s \in S : IsAEdge(g, s, t) \/ IsAEdge(g, t, s)}

\* the concepts at distance at most k from n, is-a edges walked either way
RECURSIVE Ball(_, _, _)
Ball(g, n, k) ==
    IF k = 0 THEN {n} ELSE Ball(g, n, k - 1) \cup AroundOnce(g, Ball(g, n, k - 1))

SctidsOf(details) == {a.sctid : a \in details}

\* some concept of g has no description
SomeUndescribed(g) == \E n \in Nodes(g) : ~HasFsn(g, n)

(***************************************************************************)
(* C1                                                                      *)
(***************************************************************************)
AncestorsCall == result.op = "get_ancestors" /\ IsAAcyclic(G)

AncestorsExact ==
    LET sctid == result.args[1]
        k == result.args[2]
        depth == IF k = None THEN number_of_nodes(G) ELSE k
    IN /\ result.exc = "none"
       /\ SctidsOf(result.val) = UpWithin(G, sctid, depth) \ {Root}
       /\ \A a \in result.val, b \in result.val : a.sctid = b.sctid => a = b

AncestorsGrow ==
    LET sctid == result.args[1]
        k == result.args[2]
    IN /\ k # None =>
             /\ get_ancestors(G, sctid, k + 1).exc = "none"
             /\ result.val \subseteq get_ancestors(G, sctid, k + 1).val
       /\ k = None =>
             /\ \A j \in 1..number_of_nodes(G) : get_ancestors(G, sctid, j).exc = "none"
             /\ result.val =
                   UNION {get_ancestors(G, sctid, j).val : j \in 1..number_of_nodes(G)}

\* C1: on a built graph whose is-a edges are acyclic, get_ancestors(id, k) returns
\* exactly the concepts 1..k is-a edges above id, the root removed, no identifier
\* twice; it is within get_ancestors(id, k+1), and get_ancestors(id, None) is the
\* union over all k.
C1_AncestorsExact == AncestorsCall => AncestorsExact /\ AncestorsGrow

\* What holds of the code: a call that does not end in the TypeError of an
\* undescribed concept (C8) returns exactly what C1 says, and on a graph
\* without undescribed concepts all of C1 holds.
AncestorsExactUnlessTypeError ==
    /\ AncestorsCall /\ result.exc # "TypeError" => AncestorsExact
    /\ AncestorsCall /\ ~SomeUndescribed(G) => AncestorsExact /\ AncestorsGrow

AncestorsExactReached ==
    /\ AncestorsCall /\ result.exc = "none"
    /\ result.args[2] = 2
    /\ Cardinality(result.val) = 1
    /\ Root \in UpWithin(G, result.args[1], 1)

(***************************************************************************)
(* C2                                                                      *)
(***************************************************************************)
NeighbourhoodExact ==
    /\ result.exc = "none"
    /\ SctidsOf(result.val)
          = Ball(G, result.args[1], result.args[2]) \ {result.args[1], Root}

\* C2: get_neighbourhood(id, k) returns exactly the concepts at distance 1..k from
\* id, is-a edges walked in either direction, without id and without the root.
C2_NeighbourhoodExact == result.op = "get_neighbourhood" => NeighbourhoodExact

\* The same, for the calls that do not end in the TypeError of an undescribed
\* concept (C8).
NeighbourhoodExactUnlessTypeError ==
    result.op = "get_neighbourhood" /\ result.exc # "TypeError" => NeighbourhoodExact

\* a sibling reached through the root, their shared parent
NeighbourhoodExactReached ==
    /\ result.op = "get_neighbourhood" /\ result.exc = "none"
    /\ result.args = <<Infarct, 2>>
    /\ IsAEdge(G, Infarct, Root) /\ IsAEdge(G, Disease, Root)
    /\ ~IsAEdge(G, Infarct, Disease) /\ ~IsAEdge(G, Disease, Infarct)
    /\ SctidsOf(result.val) = {Disease}

(***************************************************************************)
(* C3                                                                      *)
(***************************************************************************)
\* the calls the claims speak of: find_path(a, b) and path_to_root(id), which
\* leave print_ at its default
FindPathCall == result.op = "find_path" /\ ~result.args[3]

PathToRootCall == result.op = "path_to_root" /\ ~result.args[2]

\* C3: find_path(a, b) and find_path(b, a) have the same number of relationships
\* when a directed path exists in at least one direction, and are both empty
\* when none exists in either.
C3_FindPathSymmetric ==
    FindPathCall =>
        \A back \in find_path(G, result.args[2], result.args[1]) :
            /\ result.exc = "none" /\ back.exc = "none"
            /\ Len(result.val) = Len(back.val)
            /\ (~has_path(G, result.args[1], result.args[2])
                /\ ~has_path(G, result.args[2], result.args[1]))
               => result.val = <<>> /\ back.val = <<>>

\* What holds of the code: when no concept is undescribed and the directed
\* paths run one way only (or a = b), the two calls return paths of one length.
FindPathSymmetricOneWay ==
    (/\ FindPathCall
     /\ ~SomeUndescribed(G)
     /\ ~(/\ has_path(G, result.args[1], result.args[2])
          /\ has_path(G, result.args[2], result.args[1])
          /\ result.args[1] # result.args[2]))
    => \A back \in find_path(G, result.args[2], result.args[1]) :
            /\ result.exc = "none" /\ back.exc = "none"
            /\ Len(result.val) = Len(back.val)

(***************************************************************************)
(* C4, C5                                                                  *)
(***************************************************************************)
\* the fewest is-a edges from n up to the root
IsADistanceToRoot(g, n) ==
    CHOOSE j \in 0..number_of_nodes(g) :
        /\ Root \in UpExactly(g, {n}, j)
        /\ \A i \in 0..(j - 1) : Root \notin UpExactly(g, {n}, i)

RootReachable(g, n) == \E j \in 0..number_of_nodes(g) : Root \in UpExactly(g, {n}, j)

\* p is a connected directed path of is-a relationships from n to the root
IsAPathToRoot(p, n) ==
    /\ \A i \in 1..Len(p) : p[i].type_id = is_a_relationship_typeId
    /\ \A i \in 1..(Len(p) - 1) : p[i].tgt.sctid = p[i + 1].src.sctid
    /\ \A i \in 1..Len(p) : <<p[i].src.sctid, p[i].tgt.sctid>> \in Edges(G)
    /\ IF p = <<>> THEN n = Root
       ELSE p[1].src.sctid = n /\ p[Len(p)].tgt.sctid = Root

PathToRootShortest ==
    /\ result.exc = "none"
    /\ ~result.val.is_none
    /\ IsAPathToRoot(result.val.path, result.args[1])
    /\ Len(result.val.path) = IsADistanceToRoot(G, result.args[1])

\* C4: when the root is reachable from id through is-a edges only, path_to_root(id)
\* returns a connected path of is-a relationships from id to the root of the
\* fewest edges any such path has; paths with another edge do not count.
C4_PathToRootShortest ==
    PathToRootCall /\ RootReachable(G, result.args[1]) => PathToRootShortest

\* What holds of the code: the same for a concept other than the root, when the
\* call does not end in the TypeError of an undescribed concept (C8).
PathToRootShortestBelowRoot ==
    (/\ PathToRootCall
     /\ RootReachable(G, result.args[1])
     /\ result.args[1] # Root
     /\ result.exc # "TypeError")
    => PathToRootShortest

\* a direct edge of another type to the root beside a longer is-a path
PathToRootShortestReached ==
    /\ PathToRootCall /\ result.exc = "none"
    /\ result.args[1] = Infarct
    /\ <<Infarct, Root>> \in Edges(G) /\ ~IsAEdge(G, Infarct, Root)
    /\ ~result.val.is_none
    /\ Len(result.val.path) = 2

\* C5: what path_to_root returns when no is-a path to the root exists differs from
\* what it returns for the root itself, whose path has no edge.
C5_NoPathDistinct ==
    (/\ PathToRootCall
     /\ Root \in Nodes(G)
     /\ ~RootReachable(G, result.args[1]))
    => \A atroot \in path_to_root(G, Root) :
           <<result.exc, result.val>> # <<atroot.exc, atroot.val>>

(***************************************************************************)
(* C6, C7: from_rf2 and the rows it reads                                  *)
(***************************************************************************)
\* row i is the last active row of its (source, destination)
LastActiveOfPair(rel, i) ==
    /\ rel[i].active = 1
    /\ \A j \in (i + 1)..Len(rel) :
          rel[j].active = 1 =>
              <<rel[j].sourceId, rel[j].destinationId>>
                  # <<rel[i].sourceId, rel[i].destinationId>>

\* concept c has an active description row of the FSN type with this term
NamedBy(des, c, term) ==
    \E j \in 1..Len(des) :
        /\ des[j].active = 1 /\ des[j].conceptId = c
        /\ des[j].typeId = fsn_typeId /\ des[j].term = term

OneEdgePerPair(g) ==
    /\ \A n \in Nodes(g) : \A i, j \in 1..Len(g.succ[n]) :
          g.succ[n][i] = g.succ[n][j] => i = j
    /\ Edges(g) = {e \in Nodes(g) \X Nodes(g) : e[2] \in Range(g.succ[e[1]])}

\* C6: in the graph from_rf2 builds, each (source, destination) carries at most
\* one edge, and its group, type name and type id are those of the last active
\* row of that pair, whatever the rows before it.
C6_LastActiveRowWins ==
    [][ (pc = "start" /\ pc' = "built") =>
            /\ OneEdgePerPair(G')
            /\ \A e \in Edges(G') :
                  \E i \in 1..Len(relationships) :
                      /\ <<relationships[i].sourceId, relationships[i].destinationId>> = e
                      /\ LastActiveOfPair(relationships, i)
                      /\ G'.edge[e].group = relationships[i].relationshipGroup
                      /\ G'.edge[e].type_id = relationships[i].typeId
                      /\ NamedBy(descriptions, relationships[i].typeId, G'.edge[e].type)
            /\ \A i \in 1..Len(relationships) :
                  relationships[i].active = 1 =>
                      <<relationships[i].sourceId, relationships[i].destinationId>>
                          \in Edges(G')
      ]_vars

\* from_rf2 printed more active relationship rows than the graph has edges:
\* a later row has overwritten an edge
LastActiveRowWinsReached ==
    /\ pc = "built"
    /\ result.op = "from_rf2"
    /\ number_of_edges(G) >= 1
    /\ stdout[1].line = 509 /\ stdout[1].b > number_of_edges(G)

\* some active relationship row has a typeId without an active FSN row
UnnamedType(rel, des) ==
    \E i \in 1..Len(rel) :
        /\ rel[i].active = 1
        /\ ~\E term \in {des[j].term : j \in 1..Len(des)} : NamedBy(des, rel[i].typeId, term)

\* C7: when an active relationship row has a typeId that no active FSN description
\* row names, from_rf2 ends in an error and returns no graph.
C7_UnnamedTypeFails ==
    [][ (pc = "start" /\ UnnamedType(relationships, descriptions)) =>
            /\ pc' = "failed"
            /\ result'.op = "from_rf2" /\ result'.exc = "KeyError"
            /\ G' = EmptyGraph
      ]_vars

\* the type concept is described, by a synonym only: the lookup of line 519 raised
UnnamedTypeFailsReached ==
    /\ pc = "failed"
    /\ result.exc = "KeyError" /\ result.args = <<519>>

(***************************************************************************)
(* C8, C9                                                                  *)
(***************************************************************************)
\* C8: on a built graph with a concept that an edge names and no description
\* row describes, get_concept_details, get_parents, get_children,
\* get_inferred_relationships and find_path return; none of them raises.
C8_ReadsNeverRaise ==
    (/\ result.op \in {"get_concept_details", "get_parents", "get_children",
                       "get_inferred_relationships", "find_path"}
     /\ (result.op = "find_path" => FindPathCall)
     /\ SomeUndescribed(G))
    => result.exc = "none"

\* the outgoing edges of n that are not is-a, as G.out_edges enumerates them
OtherOutEdges(g, n) ==
    SelectSeq(g.succ[n],
              LAMBDA t : g.edge[<<n, t>>].type_id # is_a_relationship_typeId)

InferredPartition ==
    LET n == result.args[1]
        out == OtherOutEdges(G, n)
        groups == result.val
    IN /\ result.exc = "none"
       \* strictly ascending group numbers
       /\ \A i \in 1..(Len(groups) - 1) : groups[i].group < groups[i + 1].group
       \* the groups are those of the edges
       /\ {groups[i].group : i \in 1..Len(groups)}
             = {G.edge[<<n, out[i]>>].group : i \in 1..Len(out)}
       \* a group holds the edges of its number, in the order of enumeration
       /\ \A i \in 1..Len(groups) :
             LET mine == SelectSeq(out, LAMBDA t : G.edge[<<n, t>>].group = groups[i].group)
                 rs == groups[i].relationships
             IN /\ Len(rs) = Len(mine)
                /\ \A j \in 1..Len(rs) :
                      /\ rs[j].src.sctid = n /\ rs[j].tgt.sctid = mine[j]
                      /\ rs[j].group = groups[i].group
                      /\ rs[j].type_id = G.edge[<<n, mine[j]>>].type_id
                      /\ rs[j].type_id # is_a_relationship_typeId

\* C9: get_inferred_relationships(id) partitions the outgoing edges of id that are
\* not is-a into groups by group number, strictly ascending, each group in the
\* order the edges were enumerated, and returns no is-a relationship.
C9_InferredPartition == result.op = "get_inferred_relationships" => InferredPartition

\* What holds of the code: the same for the calls that do not end in the
\* TypeError of an undescribed concept (C8).
InferredPartitionUnlessTypeError ==
    result.op = "get_inferred_relationships" /\ result.exc # "TypeError"
    => InferredPartition

\* a later edge of a lower group number is returned first
InferredPartitionReached ==
    /\ result.op = "get_inferred_relationships" /\ result.exc = "none"
    /\ Len(result.val) = 2
    /\ result.val[1].relationships[1].tgt.sctid = G.succ[result.args[1]][2]

(***************************************************************************)
(* C10                                                                     *)
(***************************************************************************)
\* the Python value of a str attribute, of a list of str
AsPyStr(s) == PyStr(s)
AsPyList(ss) == PyItems([i \in 1..Len(ss) |-> PyStr(ss[i])])

\* C10: the graph from_serialized reads from what save wrote has the nodes of G
\* under their integer identifiers, the fsn and the synonyms of every node, and
\* the edges of G with their group, type and type_id.
C10_RoundTrip ==
    result.op = "from_serialized" =>
        /\ result.val.node = {PyInt(n) : n \in Nodes(G)}
        /\ result.val.attr =
              {[sctid |-> PyInt(n),
                fsn |-> IF "fsn" \in G.attr[n].keys
                        THEN AsPyStr(G.attr[n].fsn) ELSE PyAbsent,
                synonyms |-> IF "synonyms" \in G.attr[n].keys
                             THEN AsPyList(G.attr[n].synonyms) ELSE PyAbsent] :
                  n \in Nodes(G)}
        /\ result.val.edge =
              {[source |-> PyInt(e[1]), target |-> PyInt(e[2]),
                group |-> PyInt(G.edge[e].group),
                type |-> AsPyStr(G.edge[e].type),
                type_id |-> PyInt(G.edge[e].type_id)] : e \in Edges(G)}

\* What holds of the code: the round trip keeps a graph none of whose names,
\* synonyms and type names is a text that int() accepts.
RoundTripWithoutDigitTerms ==
    (/\ result.op = "from_serialized"
     /\ \A n \in Nodes(G) :
           /\ ~IsIntLiteral(G.attr[n].fsn)
           /\ \A i \in 1..Len(G.attr[n].synonyms) : ~IsIntLiteral(G.attr[n].synonyms[i])
     /\ \A e \in Edges(G) : ~IsIntLiteral(G.edge[e].type))
    => C10_RoundTrip

RoundTripReached ==
    /\ result.op = "from_serialized"
    /\ \E n \in Nodes(G) : Len(G.attr[n].synonyms) = 1
    /\ \E n \in Nodes(G) : G.attr[n].fsn = "Crohn&Colitis"
    /\ C10_RoundTrip

(***************************************************************************)
(* The shape of the graph from_rf2 returns                                 *)
(***************************************************************************)
\* the edges that touch n, whichever way they point
IncidentEdges(g, n) == {e \in Edges(g) : n \in {e[1], e[2]}}

\* the concepts that are an endpoint of an active relationship row
Related(rel) ==
    {rel[i].sourceId : i \in {j \in 1..Len(rel) : rel[j].active = 1}}
        \cup {rel[i].destinationId : i \in {j \in 1..Len(rel) : rel[j].active = 1}}

\* the concepts that have an active description row
Described(des) == {des[j].conceptId : j \in {k \in 1..Len(des) : des[k].active = 1}}

\* C11: in every graph from_rf2 returns, both endpoints of every edge are
\* nodes and every node has an incident edge, so a concept that has
\* description rows but takes part in no active relationship is not a node.
C11_NoIsolates ==
    [][ (pc = "start" /\ pc' = "built") =>
            /\ \A e \in Edges(G') : e[1] \in Nodes(G') /\ e[2] \in Nodes(G')
            /\ \A n \in Nodes(G') :
                  /\ IncidentEdges(G', n) # {}
                  /\ Len(G'.succ[n]) + Len(G'.pred[n]) > 0
            /\ Nodes(G') = Related(relationships)
            /\ \A c \in Described(descriptions) \ Related(relationships) :
                  c \notin Nodes(G')
      ]_vars

\* from_rf2 returned a graph with an edge, and a concept it named from a
\* synonym in the loop of lines 525-533 is not one of the graph's nodes
NoIsolatesReached ==
    /\ pc = "built"
    /\ result.op = "from_rf2"
    /\ number_of_edges(G) >= 1
    /\ \E i \in 1..Len(stdout) :
          stdout[i].line = 532 /\ stdout[i].a \notin Nodes(G)

\* the releases that describe every concept
InitDescribed ==
    /\ \E rf2 \in {r \in HierarchyReleases :
                      ConceptIds \subseteq DescribedIds(r.descriptions)} :
          /\ relationships = rf2.relationships
          /\ descriptions = rf2.descriptions
    /\ pc = "start"
    /\ G = EmptyGraph
    /\ stdout = <<>>
    /\ result = NoResult
    /\ gml = NoFile

SpecDescribed == InitDescribed /\ [][Next]_vars
====
